---------------------------- MODULE Spec2Model ----------------------------
(***************************************************************************)
(* Model of andi's mutation matrix and distance estimators (src/model.c).  *)
(*                                                                         *)
(* A mutation matrix is a record [counts, seq_len]; counts is a tuple of   *)
(* MUTCOUNTS naturals indexed 1..MUTCOUNTS (C index i is TLA+ index i+1).  *)
(* The estimators compute in IEEE-754 binary64; the arithmetic they do is  *)
(* modelled bit-exactly (exact dyadic arithmetic followed by one rounding  *)
(* to nearest, ties to even) so that the boundary cases of the correction  *)
(* formulas are decided by the arithmetic and not by real-number algebra.  *)
(***************************************************************************)
EXTENDS Integers, Sequences, FiniteSets, TLC

VARIABLES MODEL, FP_CONTRACT, MM, NN, KK, op, arg, old, ret

vars == <<MODEL, FP_CONTRACT, MM, NN, KK, op, arg, old, ret>>

---------------------------------------------------------------------------
(* Arbitrary-precision naturals: little-endian sequences of limbs, no      *)
(* leading (most significant) zero limb; <<>> is 0.  TLC's integers are 32 *)
(* bits wide, a binary64 significand has 53.                               *)

LimbBase == 2^15

RECURSIVE NatBitLen(_)
NatBitLen(k) == IF k = 0 THEN 0 ELSE 1 + NatBitLen(k \div 2)

LimbBits == NatBitLen(LimbBase) - 1

RECURSIVE BStrip(_)
BStrip(a) ==
    IF a = <<>> THEN <<>>
    ELSE IF a[Len(a)] = 0 THEN BStrip(SubSeq(a, 1, Len(a) - 1))
    ELSE a

RECURSIVE BFromNat(_)
BFromNat(k) ==
    IF k = 0 THEN <<>> ELSE <<k % LimbBase>> \o BFromNat(k \div LimbBase)

RECURSIVE BAddC(_, _, _)
BAddC(a, b, c) ==
    IF a = <<>> /\ b = <<>> THEN (IF c = 0 THEN <<>> ELSE <<c>>)
    ELSE LET x == IF a = <<>> THEN 0 ELSE Head(a)
             y == IF b = <<>> THEN 0 ELSE Head(b)
             s == x + y + c
         IN  <<s % LimbBase>>
                 \o BAddC(IF a = <<>> THEN <<>> ELSE Tail(a),
                          IF b = <<>> THEN <<>> ELSE Tail(b), s \div LimbBase)

BAdd(a, b) == BAddC(a, b, 0)

\* a - b for a >= b
RECURSIVE BSubC(_, _, _)
BSubC(a, b, c) ==
    IF a = <<>> THEN <<>>
    ELSE LET y == IF b = <<>> THEN 0 ELSE Head(b)
             d == Head(a) - y - c
         IN  <<IF d < 0 THEN d + LimbBase ELSE d>>
                 \o BSubC(Tail(a), IF b = <<>> THEN <<>> ELSE Tail(b),
                          IF d < 0 THEN 1 ELSE 0)

BSub(a, b) == BStrip(BSubC(a, b, 0))

\* -1, 0, 1 as a < b, a = b, a > b (both stripped)
RECURSIVE BCmp(_, _)
BCmp(a, b) ==
    IF Len(a) # Len(b) THEN (IF Len(a) < Len(b) THEN -1 ELSE 1)
    ELSE IF a = <<>> THEN 0
    ELSE IF a[Len(a)] # b[Len(b)]
         THEN (IF a[Len(a)] < b[Len(b)] THEN -1 ELSE 1)
    ELSE BCmp(SubSeq(a, 1, Len(a) - 1), SubSeq(b, 1, Len(b) - 1))

\* a * k for 0 <= k <= LimbBase
RECURSIVE BMulSmallC(_, _, _)
BMulSmallC(a, k, c) ==
    IF a = <<>> THEN BFromNat(c)
    ELSE LET s == Head(a) * k + c
         IN  <<s % LimbBase>> \o BMulSmallC(Tail(a), k, s \div LimbBase)

BMulSmall(a, k) == BStrip(BMulSmallC(a, k, 0))

BShlLimbs(a, j) == IF a = <<>> THEN <<>> ELSE [i \in 1..j |-> 0] \o a

RECURSIVE BMul(_, _)
BMul(a, b) ==
    IF b = <<>> THEN <<>>
    ELSE BAdd(BMulSmall(a, Head(b)), BShlLimbs(BMul(a, Tail(b)), 1))

\* a * 2^k
BShl(a, k) == BShlLimbs(BMulSmall(a, 2^(k % LimbBits)), k \div LimbBits)

\* <<floor(a / n), a mod n>> for 0 < n, n * LimbBase within TLC's integers;
\* the limbs are taken from the most significant down
RECURSIVE BDivSmallR(_, _, _)
BDivSmallR(a, n, r) ==
    IF a = <<>> THEN <<<<>>, r>>
    ELSE LET cur  == r * LimbBase + a[Len(a)]
             rest == BDivSmallR(SubSeq(a, 1, Len(a) - 1), n, cur % n)
         IN  <<rest[1] \o <<cur \div n>>, rest[2]>>

BDivSmall(a, n) ==
    LET qr == BDivSmallR(a, n, 0) IN <<BStrip(qr[1]), qr[2]>>

\* floor(a / 2^k)
BShr(a, k) ==
    LET j == k \div LimbBits
    IN  IF j >= Len(a) THEN <<>>
        ELSE BDivSmall(SubSeq(a, j + 1, Len(a)), 2^(k % LimbBits))[1]

BBitLen(a) ==
    IF a = <<>> THEN 0 ELSE (Len(a) - 1) * LimbBits + NatBitLen(a[Len(a)])

BOdd(a) == a # <<>> /\ a[1] % 2 = 1

---------------------------------------------------------------------------
(* IEEE-754 binary64.  A double is a record [k, neg, m, e]:                *)
(*   k = "nan";  k = "inf" (sign neg);  k = "zero" (sign neg);             *)
(*   k = "num": the finite nonzero value (-1)^neg * m * 2^e with m a       *)
(*       natural of exactly SigBits bits;                                  *)
(*   k = "approx": a finite nonzero value of sign neg whose magnitude is   *)
(*       not tracked (a result of log, which is not an exact operation).   *)
(* Exponent range is not modelled: the values below stay far inside it.    *)

SigBits == 53

Dbl(k, neg, m, e) == [k |-> k, neg |-> neg, m |-> m, e |-> e]

NAN == Dbl("nan", FALSE, <<>>, 0)

FInf(neg) == Dbl("inf", neg, <<>>, 0)

FZero(neg) == Dbl("zero", neg, <<>>, 0)

FApprox(neg) == Dbl("approx", neg, <<>>, 0)

\* An exact dyadic value (-1)^neg * m * 2^x, m any natural
Exact(neg, m, x) == [neg |-> neg, m |-> m, x |-> x]

ToExact(d) == Exact(d.neg, d.m, d.e)

\* Round to nearest, ties to even
Round(v) ==
    LET L == BBitLen(v.m)
    IN  IF v.m = <<>> THEN FZero(v.neg)
        ELSE IF L <= SigBits
             THEN Dbl("num", v.neg, BShl(v.m, SigBits - L), v.x - (SigBits - L))
        ELSE LET s    == L - SigBits
                 q    == BShr(v.m, s)
                 rem  == BSub(v.m, BShl(q, s))
                 c    == BCmp(rem, BShl(<<1>>, s - 1))
                 up   == c = 1 \/ (c = 0 /\ BOdd(q))
                 q1   == IF up THEN BAdd(q, <<1>>) ELSE q
             IN  IF BBitLen(q1) > SigBits
                 THEN Dbl("num", v.neg, BShr(q1, 1), v.x + s + 1)
                 ELSE Dbl("num", v.neg, q1, v.x + s)

XNeg(v) == Exact(~v.neg, v.m, v.x)

XAdd(a, b) ==
    LET x  == IF a.x < b.x THEN a.x ELSE b.x
        am == BShl(a.m, a.x - x)
        bm == BShl(b.m, b.x - x)
        c  == BCmp(am, bm)
    IN  IF a.neg = b.neg THEN Exact(a.neg, BAdd(am, bm), x)
        ELSE IF c = 0 THEN Exact(a.neg /\ b.neg, <<>>, x)
        ELSE IF c = 1 THEN Exact(a.neg, BSub(am, bm), x)
        ELSE Exact(b.neg, BSub(bm, am), x)

XMul(a, b) == Exact(a.neg # b.neg, BMul(a.m, b.m), a.x + b.x)

IsFinite(d) == d.k \in {"zero", "num"}

FNeg(d) == IF d.k = "nan" THEN d ELSE Dbl(d.k, ~d.neg, d.m, d.e)

\* a + b
FAdd(a, b) ==
    CASE a.k = "nan" \/ b.k = "nan" -> NAN
      [] a.k = "inf" /\ b.k = "inf" -> IF a.neg = b.neg THEN a ELSE NAN
      [] a.k = "inf" -> a
      [] b.k = "inf" -> b
      [] IsFinite(a) /\ IsFinite(b) -> Round(XAdd(ToExact(a), ToExact(b)))

\* a - b
FSub(a, b) == FAdd(a, FNeg(b))

\* a * b
FMul(a, b) ==
    CASE a.k = "nan" \/ b.k = "nan" -> NAN
      [] a.k = "inf" \/ b.k = "inf" ->
             IF a.k = "zero" \/ b.k = "zero" THEN NAN ELSE FInf(a.neg # b.neg)
      [] a.k = "zero" \/ b.k = "zero" -> FZero(a.neg # b.neg)
      [] a.k = "approx" \/ b.k = "approx" -> FApprox(a.neg # b.neg)
      [] OTHER -> Round(XMul(ToExact(a), ToExact(b)))

\* c - a * b with a single rounding (a contracted multiply-subtract)
FMulSub(c, a, b) ==
    IF IsFinite(a) /\ IsFinite(b) /\ IsFinite(c)
    THEN Round(XAdd(ToExact(c), XNeg(XMul(ToExact(a), ToExact(b)))))
    ELSE FSub(c, FMul(a, b))

\* (double)k / (double)n for two size_t values below 2^SigBits
FDivNat(k, n) ==
    IF n = 0 THEN (IF k = 0 THEN NAN ELSE FInf(FALSE))
    ELSE IF k = 0 THEN FZero(FALSE)
    ELSE LET t  == SigBits + 1 + NatBitLen(n)
             qr == BDivSmall(BShl(BFromNat(k), t), n)
             st == IF qr[2] = 0 THEN <<>> ELSE <<1>>
         IN  Round(Exact(FALSE, BAdd(BShl(qr[1], 1), st), 0 - t - 1))

FromNat(k) == FDivNat(k, 1)

\* The literals of model.c
One == FromNat(1)

Two == FromNat(2)

FourThirds == FDivNat(4, 3)

MinusThreeQuarters == FNeg(FDivNat(3, 4))

MinusOneQuarter == FNeg(FDivNat(1, 4))

\* a < b, a = b for doubles that are not NaN ("approx" never compared)
FIsOne(d) == d = One

FLeqZero(d) ==
    CASE d.k = "nan" -> FALSE
      [] d.k = "zero" -> TRUE
      [] OTHER -> d.neg

\* log(x): only the class of the result is tracked
FLog(x) ==
    CASE x.k = "nan" -> NAN
      [] x.k = "zero" -> FInf(TRUE)
      [] x.neg -> NAN
      [] x.k = "inf" -> FInf(FALSE)
      [] x.k = "approx" -> FApprox(FALSE)
      [] FIsOne(x) -> FZero(FALSE)
      [] OTHER -> FApprox(x.e + SigBits <= 0)

---------------------------------------------------------------------------
(* The mutation types of model.h, as C array indices *)

AtoA == 0

AtoC == 1

AtoG == 2

AtoT == 3

CtoC == 4

CtoG == 5

CtoT == 6

GtoG == 7

GtoT == 8

TtoT == 9

MUTCOUNTS == 10

GtoC == CtoG

\* The model selector of global.h
Models == {"M_RAW", "M_JC", "M_KIMURA", "M_LOGDET"}

Model(counts, seq_len) == [counts |-> counts, seq_len |-> seq_len]

\* model ret = {.seq_len = len, .counts = {0}}
EmptyModel(seq_len) == Model([i \in 1..MUTCOUNTS |-> 0], seq_len)

RECURSIVE model_sum_types(_, _)
model_sum_types(M, summands) ==
    IF Head(summands) = MUTCOUNTS THEN 0
    ELSE M.counts[Head(summands) + 1] + model_sum_types(M, Tail(summands))

model_sum(M, types) == model_sum_types(M, types \o <<MUTCOUNTS>>)

\* Faulty variants of model_average, which the properties must tell apart
\* from it: counts[i] = N.counts[i] in place of +=, and a seq_len that is
\* not summed
model_average_assign(M, N) ==
    Model([i \in 1..MUTCOUNTS |-> N.counts[i]], M.seq_len + N.seq_len)

model_average_keep_len(M, N) ==
    Model([i \in 1..MUTCOUNTS |-> M.counts[i] + N.counts[i]], M.seq_len)

model_average(M, N) ==
    Model([i \in 1..MUTCOUNTS |-> M.counts[i] + N.counts[i]],
          M.seq_len + N.seq_len)

RECURSIVE SumTo(_, _)
SumTo(c, i) == IF i = 0 THEN 0 ELSE SumTo(c, i - 1) + c[i]

model_total(M) == SumTo(M.counts, MUTCOUNTS)

model_coverage(M) == FDivNat(model_total(M), M.seq_len)

\* Faulty variant of estimate_RAW: the no-change type AtoA left out of the
\* divisor
estimate_RAW_no_AtoA(M) ==
    LET nucl == model_total(M)
        SNPs == model_sum(M, <<AtoC, AtoG, AtoT, CtoG, CtoT, GtoT>>)
    IN  IF nucl <= 3 THEN NAN ELSE FDivNat(SNPs, nucl - M.counts[AtoA + 1])

estimate_RAW(M) ==
    LET nucl == model_total(M)
        SNPs == model_sum(M, <<AtoC, AtoG, AtoT, CtoG, CtoT, GtoT>>)
    IN  IF nucl <= 3 THEN NAN ELSE FDivNat(SNPs, nucl)

\* dist <= 0.0 ? 0.0 : dist
FixNegativeZero(dist) == IF FLeqZero(dist) THEN FZero(FALSE) ELSE dist

\* 1.0 - (4.0 / 3.0) * dist, fused into one rounding when the build contracts
JCArgument(dist, contract) ==
    IF contract
    THEN FMulSub(One, FourThirds, dist)
    ELSE FSub(One, FMul(FourThirds, dist))

estimate_JC_build(M, contract) ==
    LET raw  == estimate_RAW(M)
        dist == FMul(MinusThreeQuarters, FLog(JCArgument(raw, contract)))
    IN  FixNegativeZero(dist)

estimate_KIMURA(M) ==
    LET nucl          == model_total(M)
        transitions   == model_sum(M, <<AtoG, CtoT>>)
        transversions == model_sum(M, <<AtoC, AtoT, GtoC, GtoT>>)
        P    == FDivNat(transitions, nucl)
        Q    == FDivNat(transversions, nucl)
        tmp  == FSub(FSub(One, FMul(Two, P)), Q)
        prod == FMul(FMul(FSub(One, FMul(Two, Q)), tmp), tmp)
        dist == FMul(MinusOneQuarter, FLog(prod))
    IN  FixNegativeZero(dist)

\* The build either contracts 1.0 - (4.0 / 3.0) * dist into a fused
\* multiply-subtract or it does not (FP_CONTRACT); nothing else in the
\* estimators is affected, 2.0 * P and 2.0 * Q being exact.
estimate_JC(M) == estimate_JC_build(M, FP_CONTRACT)

---------------------------------------------------------------------------
(* gsl_ran_multinomial(RNG, K, N, p, n): every vector n[1..K] with sum N   *)
(* and n[k] = 0 wherever p[k] > 0.0 is false.                              *)

FPositive(d) == d.k \in {"num", "inf", "approx"} /\ ~d.neg

RECURSIVE gsl_ran_multinomial(_, _, _)
gsl_ran_multinomial(K, N, p) ==
    IF K = 0 THEN (IF N = 0 THEN {<<>>} ELSE {})
    ELSE UNION {{Append(v, x) : v \in gsl_ran_multinomial(K - 1, N - x, p)} :
                   x \in (IF FPositive(p[K]) THEN 0..N ELSE {0})}

\* The vectors n the call of gsl_ran_multinomial in model_bootstrap can draw
model_bootstrap_draws(M) ==
    LET nucl == model_total(M)
        p    == [i \in 1..MUTCOUNTS |-> FDivNat(M.counts[i], nucl)]
    IN  gsl_ran_multinomial(MUTCOUNTS, nucl, p)

\* What model_bootstrap(MM) returns when n is drawn
\* Faulty variant of model_bootstrap: the copy loop stops one type early
model_bootstrap_short(M, n) ==
    Model([i \in 1..MUTCOUNTS |-> IF i < MUTCOUNTS THEN n[i] ELSE M.counts[i]],
          M.seq_len)

model_bootstrap(M, n) ==
    Model([i \in 1..MUTCOUNTS |-> n[i]], M.seq_len)

---------------------------------------------------------------------------
(* Characters are their ASCII codes.                                       *)

CharA == 65

\* ';' (the separator andi puts between sequences), A C G T and the
\* ambiguity code N
Alphabet == {59, 65, 67, 71, 78, 84}

\* What an anchor can hold: the nucleotides and ';'
AnchorAlphabet == {59, 65, 67, 71, 84}

Canonical == {65, 67, 71, 84}

RECURSIVE BitAnd(_, _)
BitAnd(a, b) ==
    IF a = 0 \/ b = 0 THEN 0
    ELSE (a % 2) * (b % 2) + 2 * BitAnd(a \div 2, b \div 2)

RECURSIVE BitXor(_, _)
BitXor(a, b) ==
    IF a = 0 /\ b = 0 THEN 0
    ELSE ((a + b) % 2) + 2 * BitXor(a \div 2, b \div 2)

Shr(a, k) == a \div 2^k

\* Faulty variant of the fast path: the remainder len & 3 is dropped
model_count_equal_fast_no_rest(M, len) ==
    LET fourth == len \div 4
    IN  Model([i \in 1..MUTCOUNTS |->
                  M.counts[i]
                  + (IF i - 1 \in {AtoA, CtoC, GtoG, TtoT} THEN fourth ELSE 0)],
              M.seq_len)

model_count_equal_fast(M, len) ==
    LET fourth == len \div 4
    IN  Model([i \in 1..MUTCOUNTS |->
                  M.counts[i]
                  + (IF i - 1 \in {AtoA, CtoC, GtoG} THEN fourth
                     ELSE IF i - 1 = TtoT THEN fourth + BitAnd(len, 3)
                     ELSE 0)],
              M.seq_len)

\* local_counts after the fall-back loop over S[1..len]
RECURSIVE EqualLocalCounts(_, _)
EqualLocalCounts(S, len) ==
    IF len = 0 THEN [j \in 0..3 |-> 0]
    ELSE LET lc == EqualLocalCounts(S, len - 1)
             c  == S[len]
         IN  IF c < CharA THEN lc
             ELSE [lc EXCEPT ![BitAnd(Shr(c, 1), 3)] = @ + 1]

model_count_equal_slow(M, S, len) ==
    LET lc == EqualLocalCounts(S, len)
    IN  Model([i \in 1..MUTCOUNTS |->
                  M.counts[i]
                  + (CASE i - 1 = AtoA -> lc[0]
                       [] i - 1 = CtoC -> lc[1]
                       [] i - 1 = GtoG -> lc[3]
                       [] i - 1 = TtoT -> lc[2]
                       [] OTHER -> 0)],
              M.seq_len)

model_count_equal(model, M, S, len) ==
    IF model \in {"M_RAW", "M_JC", "M_KIMURA"}
    THEN model_count_equal_fast(M, len)
    ELSE model_count_equal_slow(M, S, len)

\* Faulty variant of nucl2bit: the xor that separates G from T is left out
nucl2bit_no_xor(c) == Shr(BitAnd(c, 6), 1)

nucl2bit(c) ==
    LET c1 == BitAnd(c, 6)
        c2 == BitXor(c1, Shr(c1, 1))
    IN  Shr(c2, 1)

map4 == 38720

\* The index the loop body of model_count increments for the characters s, q
MutationIndex(s, q) ==
    LET foo0 == nucl2bit(s)
        baz0 == nucl2bit(q)
        foo  == IF baz0 > foo0 THEN baz0 ELSE foo0
        baz  == IF baz0 > foo0 THEN foo0 ELSE baz0
        base == BitAnd(Shr(map4, 4 * baz), 15)
    IN  base + (foo - baz)

\* local_counts after the loop over positions 1..len
RECURSIVE CountLocalCounts(_, _, _)
CountLocalCounts(S, Q, len) ==
    IF len = 0 THEN [j \in 0..(MUTCOUNTS - 1) |-> 0]
    ELSE LET lc == CountLocalCounts(S, Q, len - 1)
         IN  IF S[len] < CharA \/ Q[len] < CharA THEN lc
             ELSE [lc EXCEPT ![MutationIndex(S[len], Q[len])] = @ + 1]

model_count(M, S, Q, len) ==
    LET lc == CountLocalCounts(S, Q, len)
    IN  Model([i \in 1..MUTCOUNTS |-> M.counts[i] + lc[i - 1]], M.seq_len)

---------------------------------------------------------------------------
(* Bounds and input sets                                                   *)

\* Largest total of a matrix handed to the estimators
MaxTotal == 4

\* Longest pair of aligned fragments handed to model_count
MaxLen == 2

\* Longest anchor handed to model_count_equal
MaxAnchor == 4

\* Largest total of a matrix handed to model_average
MaxAvg == 1

\* Largest total of a matrix handed to model_bootstrap
MaxBoot == 3

\* In the calling sequence: the cap on the counted positions, the longest
\* fragment or anchor of one call, and the largest reference length
MaxSum == 2

MaxRun == 1

MaxSeqLen == 1

\* Every tuple of K naturals with sum N
RECURSIVE CountVectors(_, _)
CountVectors(K, N) ==
    IF K = 0 THEN (IF N = 0 THEN {<<>>} ELSE {})
    ELSE UNION {{Append(v, x) : v \in CountVectors(K - 1, N - x)} : x \in 0..N}

\* Every matrix with the given seq_len and a total of at most n
Matrices(n, seq_len) ==
    {Model(c, seq_len) : c \in UNION {CountVectors(MUTCOUNTS, t) : t \in 0..n}}

\* The empty matrix and the ten matrices with one counted position
UnitMatrices(seq_len) == Matrices(1, seq_len)

Strings(len) == [1..len -> Alphabet]

Anchors(len) == [1..len -> AnchorAlphabet]

\* The matrix of the end-to-end example, "AACGT" against "AACGA"
ExampleS == <<65, 65, 67, 71, 84>>

ExampleQ == <<65, 65, 67, 71, 65>>

ExampleMatrix(seq_len) ==
    model_count(EmptyModel(seq_len), ExampleS, ExampleQ, Len(ExampleS))

StartMatrices(seq_len) == {EmptyModel(seq_len), ExampleMatrix(seq_len)}

\* A fragment that repeats one character; the calling sequence counts such
\* fragments of ';', A and T
Run(c, len) == [i \in 1..len |-> c]

RunAlphabet == {59, 65, 84}

NoArg == [S |-> <<>>, Q |-> <<>>, len |-> 0, n |-> <<>>]

NoModel == EmptyModel(0)

NoRet == [kind |-> "none", d |-> NAN, m |-> NoModel]

RetDouble(d) == [kind |-> "double", d |-> d, m |-> NoModel]

RetModel(m) == [kind |-> "model", d |-> NAN, m |-> m]

TypeOK ==
    /\ MODEL \in Models
    /\ FP_CONTRACT \in BOOLEAN
    /\ op \in {"init", "model_count", "model_count_equal", "model_average",
               "model_bootstrap", "estimate_RAW", "estimate_JC",
               "estimate_KIMURA"}
    /\ ret.kind \in {"none", "double", "model"}

---------------------------------------------------------------------------
(* Calls.  model.c is a library: the callers below make one call each.     *)

\* dist = estimate(&M) with the estimator the model selector names
Estimate ==
    /\ MODEL \in {"M_RAW", "M_JC", "M_KIMURA"}
    /\ op' = CASE MODEL = "M_RAW" -> "estimate_RAW"
               [] MODEL = "M_JC" -> "estimate_JC"
               [] MODEL = "M_KIMURA" -> "estimate_KIMURA"
    /\ ret' = RetDouble(CASE MODEL = "M_RAW" -> estimate_RAW(MM)
                          [] MODEL = "M_JC" -> estimate_JC(MM)
                          [] MODEL = "M_KIMURA" -> estimate_KIMURA(MM))
    /\ UNCHANGED <<MODEL, FP_CONTRACT, MM, NN, KK, arg, old>>

\* model_count(&MM, S, Q, len)
CallCount(S, Q, len) ==
    /\ MM' = model_count(MM, S, Q, len)
    /\ op' = "model_count"
    /\ arg' = [NoArg EXCEPT !.S = S, !.Q = Q, !.len = len]
    /\ old' = MM
    /\ ret' = NoRet
    /\ UNCHANGED <<MODEL, FP_CONTRACT, NN, KK>>

\* model_count_equal(&MM, S, len)
CallCountEqual(S, len) ==
    /\ MM' = model_count_equal(MODEL, MM, S, len)
    /\ op' = "model_count_equal"
    /\ arg' = [NoArg EXCEPT !.S = S, !.len = len]
    /\ old' = MM
    /\ ret' = NoRet
    /\ UNCHANGED <<MODEL, FP_CONTRACT, NN, KK>>

\* ret = model_average(&MM, &NN)
CallAverage ==
    /\ ret' = RetModel(model_average(MM, NN))
    /\ op' = "model_average"
    /\ arg' = NoArg
    /\ old' = MM
    /\ UNCHANGED <<MODEL, FP_CONTRACT, MM, NN, KK>>

\* ret = model_bootstrap(MM)
CallBootstrap ==
    /\ \E n \in model_bootstrap_draws(MM) :
           /\ ret' = RetModel(model_bootstrap(MM, n))
           /\ arg' = [NoArg EXCEPT !.n = n]
    /\ op' = "model_bootstrap"
    /\ old' = MM
    /\ UNCHANGED <<MODEL, FP_CONTRACT, MM, NN, KK>>

---------------------------------------------------------------------------
(* SpecEst: the estimators on every matrix with a total of at most         *)
(* MaxTotal, under every estimator and both builds.                        *)

InitEst ==
    /\ MODEL \in {"M_RAW", "M_JC", "M_KIMURA"}
    /\ FP_CONTRACT \in (IF MODEL = "M_JC" THEN BOOLEAN ELSE {FALSE})
    /\ MM \in Matrices(MaxTotal, MaxTotal)
    /\ NN = NoModel /\ KK = NoModel /\ old = NoModel
    /\ op = "init" /\ arg = NoArg /\ ret = NoRet

NextEst == Estimate

SpecEst == InitEst /\ [][NextEst]_vars

(* SpecCount: one call of model_count on every pair of fragments of at     *)
(* most MaxLen characters, and on the pair of the end-to-end example.      *)

InitCount ==
    /\ MODEL = "M_JC"
    /\ FP_CONTRACT = FALSE
    /\ MM \in StartMatrices(Len(ExampleS) + MaxLen)
    /\ NN = NoModel /\ KK = NoModel /\ old = NoModel
    /\ op = "init" /\ arg = NoArg /\ ret = NoRet

CountFragments ==
    /\ op = "init"
    /\ \E len \in 0..MaxLen : \E S, Q \in Strings(len) : CallCount(S, Q, len)

CountExample ==
    /\ op = "init"
    /\ CallCount(ExampleS, ExampleQ, Len(ExampleS))

NextCount == CountFragments \/ CountExample

SpecCount == InitCount /\ [][NextCount]_vars

(* SpecEqual: one call of model_count_equal on every anchor of at most     *)
(* MaxAnchor characters under every model selector, then the estimate.     *)

InitEqual ==
    /\ MODEL \in Models
    /\ FP_CONTRACT \in (IF MODEL = "M_JC" THEN BOOLEAN ELSE {FALSE})
    /\ MM \in StartMatrices(Len(ExampleS) + MaxAnchor)
    /\ NN = NoModel /\ KK = NoModel /\ old = NoModel
    /\ op = "init" /\ arg = NoArg /\ ret = NoRet

CountAnchor ==
    /\ op = "init"
    /\ \E len \in 0..MaxAnchor : \E S \in Anchors(len) : CallCountEqual(S, len)

EstimateAnchor ==
    /\ op = "model_count_equal"
    /\ Estimate

NextEqual == CountAnchor \/ EstimateAnchor

SpecEqual == InitEqual /\ [][NextEqual]_vars

(* SpecAvg: model_average on every pair of matrices with totals of at most *)
(* MaxAvg, with a third matrix KK for the associativity of the sum.        *)

InitAvg ==
    /\ MODEL = "M_JC"
    /\ FP_CONTRACT = FALSE
    /\ MM \in UNION {Matrices(MaxAvg, l) : l \in 1..MaxAvg}
    /\ NN \in Matrices(MaxAvg, MaxAvg + 1)
    /\ KK \in UnitMatrices(MaxAvg + 2)
    /\ old = NoModel
    /\ op = "init" /\ arg = NoArg /\ ret = NoRet

NextAvg == op = "init" /\ CallAverage

SpecAvg == InitAvg /\ [][NextAvg]_vars

(* SpecBoot: model_bootstrap on every matrix with a total of at most       *)
(* MaxBoot, with every draw gsl_ran_multinomial can make.                  *)

InitBoot ==
    /\ MODEL = "M_JC"
    /\ FP_CONTRACT = FALSE
    /\ MM \in UNION {Matrices(MaxBoot, l) : l \in {MaxBoot, MaxBoot + 1}}
    /\ NN = NoModel /\ KK = NoModel /\ old = NoModel
    /\ op = "init" /\ arg = NoArg /\ ret = NoRet

NextBoot == op = "init" /\ CallBootstrap

SpecBoot == InitBoot /\ [][NextBoot]_vars

(* Spec: the calling sequence.  The forward matrix MM is counted from      *)
(* aligned fragments and anchors, then becomes NN while the reverse matrix *)
(* is counted into a fresh MM; the two are averaged, and MM resampled.     *)
(* Of a counting call only the length is kept in arg.                      *)

Init ==
    /\ MODEL \in Models
    /\ FP_CONTRACT = FALSE
    /\ \E l \in 1..MaxSeqLen : MM = EmptyModel(l) /\ NN = EmptyModel(l)
    /\ KK = NoModel /\ old = NoModel
    /\ op = "init" /\ arg = NoArg /\ ret = NoRet

Capped(M) == model_total(M) + model_total(NN) <= MaxSum

CountRun ==
    \E len \in 0..MaxRun : \E s, q \in RunAlphabet :
        LET M == model_count(MM, Run(s, len), Run(q, len), len)
        IN  /\ len = 0 => (s = CharA /\ q = CharA)
            /\ Capped(M)
            /\ MM' = M
            /\ op' = "model_count"
            /\ arg' = [NoArg EXCEPT !.len = len]
            /\ ret' = NoRet
            /\ UNCHANGED <<MODEL, FP_CONTRACT, NN, KK, old>>

CountEqualRun ==
    \E len \in 0..MaxRun : \E s \in RunAlphabet :
        LET M == model_count_equal(MODEL, MM, Run(s, len), len)
        IN  /\ len = 0 => s = CharA
            /\ Capped(M)
            /\ MM' = M
            /\ op' = "model_count_equal"
            /\ arg' = [NoArg EXCEPT !.len = len]
            /\ ret' = NoRet
            /\ UNCHANGED <<MODEL, FP_CONTRACT, NN, KK, old>>

\* The forward matrix is done: M(i,j) = MM, and a fresh matrix is started
StartReverse ==
    /\ NN = EmptyModel(NN.seq_len)
    /\ model_total(MM) > 0
    /\ NN' = MM
    /\ MM' = EmptyModel(MM.seq_len)
    /\ op' = "init" /\ arg' = NoArg /\ ret' = NoRet
    /\ UNCHANGED <<MODEL, FP_CONTRACT, KK, old>>

Average ==
    /\ ret' = RetModel(model_average(MM, NN))
    /\ op' = "model_average"
    /\ arg' = NoArg
    /\ UNCHANGED <<MODEL, FP_CONTRACT, MM, NN, KK, old>>

Bootstrap ==
    /\ \E n \in model_bootstrap_draws(MM) :
           ret' = RetModel(model_bootstrap(MM, n))
    /\ op' = "model_bootstrap"
    /\ arg' = NoArg
    /\ UNCHANGED <<MODEL, FP_CONTRACT, MM, NN, KK, old>>

Next == CountRun \/ CountEqualRun \/ StartReverse \/ Average \/ Bootstrap

Spec == Init /\ [][Next]_vars

---------------------------------------------------------------------------
(* Properties of the specification (spec.md), by their ids               *)

Estimators == {"estimate_RAW", "estimate_JC", "estimate_KIMURA"}

ChangeTypes == <<AtoC, AtoG, AtoT, CtoG, CtoT, GtoT>>

\* S, ts and tv of a matrix
Changes(M) == model_sum(M, ChangeTypes)

Transitions(M) == model_sum(M, <<AtoG, CtoT>>)

Transversions(M) == model_sum(M, <<AtoC, AtoT, CtoG, GtoT>>)

\* 0 <= d < 1 for a double d
InUnitHalfOpen(d) ==
    \/ d.k = "zero"
    \/ d.k = "num" /\ ~d.neg /\ d.e + SigBits <= 0

\* sum(counts) <= seq_len
WithinReference(M) == model_total(M) <= M.seq_len

\* C1: a matrix with a total of at most 3 makes estimate_RAW, estimate_JC
\* and estimate_KIMURA all return the undefined sentinel NaN.
C1_SmallTotalIsUndefined ==
    (op \in Estimators /\ model_total(MM) <= 3) => ret.d = NAN

C1_Witness ==
    /\ op = "estimate_KIMURA"
    /\ model_total(MM) = 3 /\ MM.counts[AtoA + 1] = 3
    /\ ret.d = FZero(FALSE)

\* C2: for a total n > 3 and a saturated raw divergence, 4 * S >= 3 * n,
\* estimate_JC returns NaN, never infinity or a finite number, the boundary
\* 4 * S = 3 * n included.
C2_SaturatedJCIsUndefined ==
    (op = "estimate_JC" /\ model_total(MM) > 3
        /\ 4 * Changes(MM) >= 3 * model_total(MM))
    => ret.d = NAN

C2_Witness ==
    /\ op = "estimate_JC"
    /\ model_total(MM) = 4 /\ Changes(MM) = 3
    /\ \/ ~FP_CONTRACT /\ ret.d = FInf(FALSE)
       \/ FP_CONTRACT /\ ret.d.k = "approx" /\ ~ret.d.neg

\* C3: for a total n > 0, estimate_KIMURA returns NaN whenever a factor of
\* its logarithm is not positive: 2 * tv >= n or 2 * ts + tv >= n.
C3_KimuraOutOfDomainIsUndefined ==
    (op = "estimate_KIMURA" /\ model_total(MM) > 0
        /\ \/ 2 * Transversions(MM) >= model_total(MM)
           \/ 2 * Transitions(MM) + Transversions(MM) >= model_total(MM))
    => ret.d = NAN

C3_Witness ==
    /\ op = "estimate_KIMURA"
    /\ model_total(MM) = 2 /\ Transversions(MM) = 1 /\ Transitions(MM) = 0
    /\ ret.d = FInf(FALSE)

\* The positions of S, Q that hold a canonical nucleotide in both
CanonicalPositions(S, Q) ==
    {i \in 1..Len(S) : S[i] \in Canonical /\ Q[i] \in Canonical}

\* S restricted to the positions in P, in order
RECURSIVE Restrict(_, _, _)
Restrict(S, P, len) ==
    IF len = 0 THEN <<>>
    ELSE IF len \in P THEN Append(Restrict(S, P, len - 1), S[len])
    ELSE Restrict(S, P, len - 1)

\* C4: model_count skips every position at which the subject or the query
\* character is not one of A, C, G, T: the total grows by the number of
\* positions canonical in both, and the other positions change no count
\* (the counts are those of the canonical positions alone).
C4_OnlyCanonicalPositionsCount ==
    op = "model_count" =>
        LET P == CanonicalPositions(arg.S, arg.Q)
        IN  /\ model_total(MM) - model_total(old) = Cardinality(P)
            /\ MM = model_count(old, Restrict(arg.S, P, arg.len),
                                Restrict(arg.Q, P, arg.len), Cardinality(P))

C4_Witness ==
    /\ op = "model_count"
    /\ arg.S = <<78>> /\ arg.Q = <<65>>
    /\ MM.counts[AtoG + 1] = old.counts[AtoG + 1] + 1

\* The mutation type model.h names for the unordered pair {x, y}
PairCategory(x, y) ==
    CASE {x, y} = {65} -> AtoA
      [] {x, y} = {65, 67} -> AtoC
      [] {x, y} = {65, 71} -> AtoG
      [] {x, y} = {65, 84} -> AtoT
      [] {x, y} = {67} -> CtoC
      [] {x, y} = {67, 71} -> CtoG
      [] {x, y} = {67, 84} -> CtoT
      [] {x, y} = {71} -> GtoG
      [] {x, y} = {71, 84} -> GtoT
      [] {x, y} = {84} -> TtoT

Bumped(counts, types) ==
    [i \in 1..MUTCOUNTS |->
        counts[i] + Cardinality({j \in 1..Len(types) : types[j] = i - 1})]

\* C5: on one aligned position (x, y) of canonical nucleotides model_count
\* adds 1 to exactly the category of the unordered pair {x, y}, an index in
\* 0..9, the same for (x, y) and (y, x), distinct for the 10 pairs; and the
\* example "AACGT" against "AACGA" adds AtoA 2, CtoC 1, GtoG 1, AtoT 1.
C5_OnePositionOneCategory ==
    op = "model_count" =>
        /\ (arg.len = 1 /\ arg.S[1] \in Canonical /\ arg.Q[1] \in Canonical) =>
              /\ PairCategory(arg.S[1], arg.Q[1]) \in 0..(MUTCOUNTS - 1)
              /\ MM = Model(Bumped(old.counts,
                                   <<PairCategory(arg.S[1], arg.Q[1])>>),
                            old.seq_len)
              /\ MM = model_count(old, arg.Q, arg.S, 1)
        /\ (arg.S = ExampleS /\ arg.Q = ExampleQ) =>
              /\ MM = Model(Bumped(old.counts, <<AtoA, AtoA, CtoC, GtoG, AtoT>>),
                            old.seq_len)
              /\ model_total(MM) = model_total(old) + 5
        /\ Cardinality({PairCategory(x, y) : x, y \in Canonical}) = MUTCOUNTS

C5_Witness ==
    /\ op = "model_count"
    /\ arg.S = <<84>> /\ arg.Q = <<71>>
    /\ MM.counts[GtoT + 1] = old.counts[GtoT + 1] + 1
    /\ model_total(MM) = model_total(old) + 1

\* C6: under RAW, JC or KIMURA model_count_equal adds len div 4 to AtoA,
\* CtoC and GtoG and len div 4 + len mod 4 to TtoT, whatever S holds, so the
\* total grows by len and nothing else changes; and an anchor of length
\* L >= 4 counted into an empty matrix makes the estimators return exactly 0.
C6_AnchorFastPath ==
    /\ (op = "model_count_equal" /\ MODEL \in {"M_RAW", "M_JC", "M_KIMURA"}) =>
          /\ MM = Model([i \in 1..MUTCOUNTS |->
                            old.counts[i]
                            + (CASE i - 1 \in {AtoA, CtoC, GtoG} -> (arg.len \div 4)
                                 [] i - 1 = TtoT -> (arg.len \div 4) + (arg.len % 4)
                                 [] OTHER -> 0)],
                        old.seq_len)
          /\ model_total(MM) = model_total(old) + arg.len
    /\ (op \in Estimators /\ model_total(old) = 0 /\ arg.len >= 4) =>
          /\ model_sum(MM, <<AtoA, CtoC, GtoG, TtoT>>) = arg.len
          /\ Changes(MM) = 0 /\ Transitions(MM) = 0 /\ Transversions(MM) = 0
          /\ ret.d = FZero(FALSE)

C6_Witness ==
    /\ op = "estimate_JC" /\ FP_CONTRACT
    /\ model_total(old) = 0
    /\ arg.len = 4 /\ arg.S = <<59, 67, 67, 84>>
    /\ MM.counts[TtoT + 1] = 1
    /\ ret.d = FZero(FALSE)

\* C7: for a matrix M with total n > 0 and every draw of the random source
\* model_bootstrap returns a matrix whose counts are the drawn vector, with
\* the total and the seq_len of M, and leaves M unchanged.
C7_BootstrapKeepsTotal ==
    (op = "model_bootstrap" /\ model_total(old) > 0) =>
        /\ ret.m.counts = arg.n
        /\ model_total(ret.m) = model_total(old)
        /\ ret.m.seq_len = old.seq_len
        /\ MM = old

C7_Witness ==
    /\ op = "model_bootstrap"
    /\ model_total(old) = 3
    /\ ret.m.counts # old.counts
    /\ old.seq_len = 4

\* C8: model_average(A, B) returns the component-wise sum of the counts and
\* the sum of the seq_len and leaves A and B alone; so the totals add up,
\* and the average is commutative and associative.
C8_AverageIsSum ==
    [][op' = "model_average" =>
          /\ MM' = MM /\ NN' = NN
          /\ \A i \in 1..MUTCOUNTS :
                 ret'.m.counts[i] = MM.counts[i] + NN.counts[i]
          /\ ret'.m.seq_len = MM.seq_len + NN.seq_len
          /\ model_total(ret'.m) = model_total(MM) + model_total(NN)
          /\ model_average(NN, MM) = ret'.m
          /\ model_average(ret'.m, KK) = model_average(MM, model_average(NN, KK))
      ]_vars

C8_Witness ==
    /\ op = "model_average"
    /\ model_total(MM) = 1 /\ model_total(NN) = 1 /\ MM.counts # NN.counts
    /\ model_total(ret.m) = 2
    /\ ret.m.seq_len = MM.seq_len + NN.seq_len
    /\ model_total(KK) = 1

\* C9 as stated: whenever estimate_RAW is defined (n > 3) its value lies in
\* [0, 1), that is 0 <= S < n.
C9_RawBelowOne ==
    (op = "estimate_RAW" /\ model_total(MM) > 3) =>
        /\ InUnitHalfOpen(ret.d)
        /\ Changes(MM) < model_total(MM)

\* C9 amended: whenever estimate_RAW is defined (n > 3) its value lies in
\* the closed range [0, 1], 0 <= S <= n, and is 1 exactly when every
\* counted position is a substitution and 0 exactly when none is.
C9_RawInUnitInterval ==
    (op = "estimate_RAW" /\ model_total(MM) > 3) =>
        /\ InUnitHalfOpen(ret.d) \/ ret.d = One
        /\ ret.d = One <=> Changes(MM) = model_total(MM)
        /\ ret.d = FZero(FALSE) <=> Changes(MM) = 0
        /\ ret.d = FDivNat(Changes(MM), model_total(MM))

C9_Witness ==
    /\ op = "estimate_RAW"
    /\ model_total(MM) = 4 /\ Changes(MM) = 4
    /\ ret.d = One

\* C10 as stated: every matrix reached from an empty one by counting,
\* averaging and resampling satisfies sum(counts) <= seq_len.
C10_SumWithinReference ==
    /\ WithinReference(MM)
    /\ WithinReference(NN)
    /\ ret.kind = "model" => WithinReference(ret.m)

\* C10 amended: model_average and model_bootstrap return a matrix with
\* sum(counts) <= seq_len when their inputs satisfy it; model_count and
\* model_count_equal leave seq_len alone and raise the sum by at most len,
\* so they keep sum(counts) <= seq_len only as far as the caller's fragments
\* fit the reference length.
C10_PreservedByAverageAndBootstrap ==
    [][/\ op' \in {"model_count", "model_count_equal"} =>
             /\ MM'.seq_len = MM.seq_len
             /\ model_total(MM') >= model_total(MM)
             /\ model_total(MM') <= model_total(MM) + arg'.len
             /\ (WithinReference(MM)
                    /\ model_total(MM) + arg'.len <= MM.seq_len)
                => WithinReference(MM')
       /\ (op' = "model_average" /\ WithinReference(MM) /\ WithinReference(NN))
             => WithinReference(ret'.m)
       /\ (op' = "model_bootstrap" /\ WithinReference(MM))
             => WithinReference(ret'.m)
      ]_vars

C10_Witness ==
    /\ op = "model_average"
    /\ model_total(MM) = 1 /\ WithinReference(MM)
    /\ model_total(NN) = 1 /\ WithinReference(NN)
    /\ model_total(ret.m) = 2 /\ ret.m.seq_len = 2

=============================================================================
